---- MODULE Spec2Model ----
(***************************************************************************)
(* Model of src/api/applications.ts: the express router that lists and     *)
(* creates applications (tenants), resolves the :applicationId parameter   *)
(* against owner / team membership, and serves the three log queries       *)
(* (search, recent, history) from the tenant's Elasticsearch index.        *)
(*                                                                         *)
(* Every request is a process: it advances one step per resumption of an   *)
(* await in its handler, so requests interleave with each other and with   *)
(* writes to the team table and the log indices exactly where the code     *)
(* suspends.                                                               *)
(***************************************************************************)
EXTENDS Integers, Sequences, FiniteSets, TLC

VARIABLES
  apps,       \* table of applicationEntity rows, in id order (id = position)
  teams,      \* table of applicationTeam rows: team id -> memberIds
  cache,      \* applicationCache: the Application records getById has loaded
  es,         \* Elasticsearch: index name -> documents of the index
  req,        \* the requests in flight, one record per connection
  lastGrant,  \* history variable: the user and application of the latest grant
  pager       \* a caller that pages through /logs/history; pager.fixed is a
              \* history variable: no document was ingested since it began

vars == <<apps, teams, cache, es, req, lastGrant, pager>>

(***************************************************************************)
(* Bounds of the model.                                                    *)
(***************************************************************************)
MaxApps == 2
MaxDocs == 3
\* size: 100 (search, history) and size: 75 (recent), scaled down so that a
\* page fills up within MaxDocs documents.
PageSize == 2
RecentSize == 1

Reqs    == {"r1", "r2"}
Users   == {"u1", "u2"}
TeamIds == {"t1", "t2"}
Ids     == 1..3
Times   == 1..3
Messages == {{"disk"}, {"full"}}
Contents == {{"disk"}, {"disk", "full"}}

Null  == "null"
NoApplication == [id |-> 0, name |-> Null, key |-> Null, ownerId |-> Null, teamId |-> Null]
NoBody  == [name |-> Null]
NoQuery == [none |-> Null]
NoRes   == [status |-> 0, body |-> Null]

Idle ==
  [pc |-> "idle", kind |-> "none", user |-> Null, applicationId |-> 0,
   body |-> NoBody, query |-> NoQuery, application |-> NoApplication,
   loaded |-> NoApplication, newApplication |-> NoApplication, pending |-> {},
   applications |-> <<>>, dirty |-> FALSE, res |-> NoRes]

Free(r) == req[r].pc \in {"idle", "done"}

Send(rq, status, body) ==
  [rq EXCEPT !.pc = "done", !.res = [status |-> status, body |-> body]]

\* An await whose promise rejects inside an async express handler: no
\* response is written.
Reject(rq) == [rq EXCEPT !.pc = "done", !.res = [status |-> 0, body |-> "rejected"]]

\* A write to the relational store while a /list request is between its reads.
Touch(rq) == IF rq.kind = "list" THEN [rq EXCEPT !.dirty = TRUE] ELSE rq

(***************************************************************************)
(* Relational store.                                                       *)
(***************************************************************************)
FindByOwner(userId) == SelectSeq(apps, LAMBDA a : a.ownerId = userId)

FindByTeam(teamId) == SelectSeq(apps, LAMBDA a : a.teamId = teamId)

TeamsOf(userId) == {t \in DOMAIN teams : userId \in teams[t]}

Summary(application) ==
  [id |-> application.id, name |-> application.name,
   teamId |-> application.teamId, ownerId |-> application.ownerId]

RECURSIVE MapSummary(_)
MapSummary(s) ==
  IF s = <<>> THEN <<>> ELSE <<Summary(Head(s))>> \o MapSummary(Tail(s))

\* Team administration, done by other routes of the service.
TeamSave(t, members) ==
  /\ (t \in DOMAIN teams => teams[t] # members)
  /\ teams' = [x \in DOMAIN teams \cup {t} |-> IF x = t THEN members ELSE teams[x]]
  /\ req' = [r \in Reqs |-> Touch(req[r])]
  /\ UNCHANGED <<apps, cache, es, lastGrant, pager>>

TeamRemove(t) ==
  /\ t \in DOMAIN teams
  /\ teams' = [x \in DOMAIN teams \ {t} |-> teams[x]]
  /\ req' = [r \in Reqs |-> Touch(req[r])]
  /\ UNCHANGED <<apps, cache, es, lastGrant, pager>>

(***************************************************************************)
(* GET /list                                                               *)
(***************************************************************************)
ListStart(r, u) ==
  /\ Free(r)
  /\ req' = [req EXCEPT ![r] = [Idle EXCEPT !.pc = "findOwned", !.kind = "list", !.user = u]]
  /\ UNCHANGED <<apps, teams, cache, es, lastGrant, pager>>

\* mutant: the team's applications replace the list
Concat_Overwrite(applications, found) == found

Concat(applications, found) == applications \o found

ListSend(rq) == Send(rq, 200, MapSummary(rq.applications))

\* personalApplications = await applicationRepo.find({ownerId})
ListOwned(r) ==
  /\ req[r].pc = "findOwned"
  /\ req' = [req EXCEPT ![r] =
       [@ EXCEPT !.pc = "findTeams",
                 !.applications = Concat(@, FindByOwner(req[r].user))]]
  /\ UNCHANGED <<apps, teams, cache, es, lastGrant, pager>>

\* teams = await ...getMany(); then one lookup per team is issued at once
ListTeams(r) ==
  /\ req[r].pc = "findTeams"
  /\ LET found == TeamsOf(req[r].user) IN
       req' = [req EXCEPT ![r] =
         IF found = {} THEN ListSend(@)
         ELSE [@ EXCEPT !.pc = "findTeamApps", !.pending = found]]
  /\ UNCHANGED <<apps, teams, cache, es, lastGrant, pager>>

\* one of the pending per-team lookups completes; the last one resolves
\* Promise.all and the response is sent
ListTeamApps(r, t) ==
  /\ req[r].pc = "findTeamApps"
  /\ t \in req[r].pending
  /\ LET rq == [req[r] EXCEPT !.applications = Concat(@, FindByTeam(t)),
                              !.pending = @ \ {t}] IN
       req' = [req EXCEPT ![r] = IF rq.pending = {} THEN ListSend(rq) ELSE rq]
  /\ UNCHANGED <<apps, teams, cache, es, lastGrant, pager>>

(***************************************************************************)
(* POST /create                                                            *)
(***************************************************************************)
\* applicationSchema.validate: name is required
Validate(body) == body.name # ""

\* mutant: the index name does not depend on the application
IndexName_Shared(id) == <<"syslog", 1>>

IndexName(id) == <<"syslog", id>>

NewEntity(name) == [NoApplication EXCEPT !.name = name]

WithTeam(entity, teamId) == [entity EXCEPT !.teamId = teamId]

\* mutant: the else branch forgets the owner
WithOwner_Unset(entity, userId) == entity

WithOwner(entity, userId) == [entity EXCEPT !.ownerId = userId]

\* cryptoRandomString({length: 20}): the key's value is read by no handler
\* of this router, so one value stands for all
WithKey(entity) == [entity EXCEPT !.key = "key"]

Creating == {r \in Reqs : req[r].kind = "create" /\ req[r].pc \in {"findTeam", "save"}}

\* the request comes in, applicationSchema.validate answers, and the entity
\* is built up to the next await (findOne for a team, save otherwise)
CreateStart(r, u, body) ==
  /\ Free(r)
  /\ Len(apps) + Cardinality(Creating) < MaxApps
  /\ LET rq == [Idle EXCEPT !.kind = "create", !.user = u, !.body = body] IN
       req' = [req EXCEPT ![r] =
         IF ~Validate(body) THEN Send(rq, 400, "name is a required field")
         ELSE IF "teamId" \in DOMAIN body
           THEN [rq EXCEPT !.pc = "findTeam", !.newApplication = NewEntity(body.name)]
           ELSE [rq EXCEPT !.pc = "save",
                           !.newApplication = WithKey(WithOwner(NewEntity(body.name), u))]]
  /\ UNCHANGED <<apps, teams, cache, es, lastGrant, pager>>

\* mutant: the membership test is left out
Includes_Skipped(memberIds, userId) == TRUE

Includes(memberIds, userId) == userId \in memberIds

\* team = await teamRepo.findOne(body.teamId)
CreateFindTeam(r) ==
  /\ req[r].pc = "findTeam"
  /\ LET rq == req[r]
         t  == rq.body.teamId IN
       req' = [req EXCEPT ![r] =
         IF t \notin DOMAIN teams THEN Send(rq, 400, "Unknown team")
         ELSE IF ~Includes(teams[t], rq.user)
           THEN Send(rq, 403, "You don't have access to this team")
           ELSE [rq EXCEPT !.pc = "save",
                           !.newApplication = WithKey(WithTeam(@, t))]]
  /\ UNCHANGED <<apps, teams, cache, es, lastGrant, pager>>

\* await newApplication.save(): the row is inserted and gets its id
CreateSave(r) ==
  /\ req[r].pc = "save"
  /\ LET saved == [req[r].newApplication EXCEPT !.id = Len(apps) + 1] IN
       /\ apps' = Append(apps, saved)
       /\ req' = [q \in Reqs |->
            IF q = r THEN [req[r] EXCEPT !.pc = "createIndex", !.newApplication = saved]
            ELSE Touch(req[q])]
  /\ UNCHANGED <<teams, cache, es, lastGrant, pager>>

\* await esClient.indices.create(...): it succeeds, or the backend fails and
\* the handler's promise rejects with the row already saved
CreateIndex(r, ok) ==
  /\ req[r].pc = "createIndex"
  /\ LET index == IndexName(req[r].newApplication.id) IN
       IF ok /\ index \notin DOMAIN es
         THEN /\ es' = [x \in DOMAIN es \cup {index} |-> IF x = index THEN {} ELSE es[x]]
              /\ req' = [req EXCEPT ![r] = Send(@, 200, req[r].newApplication)]
         ELSE /\ es' = es
              /\ req' = [req EXCEPT ![r] = Reject(@)]
  /\ UNCHANGED <<apps, teams, cache, lastGrant, pager>>

(***************************************************************************)
(* router.param('applicationId'): the access resolver.                     *)
(***************************************************************************)
TenantRequest(u, kind, id, query) ==
  [Idle EXCEPT !.pc = "getById", !.kind = kind, !.user = u,
               !.applicationId = id, !.query = query]

TenantStart(r, u, kind, id, query) ==
  /\ Free(r)
  /\ req' = [req EXCEPT ![r] = TenantRequest(u, kind, id, query)]
  /\ UNCHANGED <<apps, teams, cache, es, lastGrant, pager>>

\* applicationCache.getById: the cached record, else the row of the table,
\* which is then cached
Cached(id) == {a \in cache : a.id = id}

GetById(id) ==
  IF Cached(id) # {} THEN CHOOSE a \in Cached(id) : TRUE
  ELSE IF id \in 1..Len(apps) THEN apps[id]
  ELSE NoApplication

IsOwner(application, userId) == application.ownerId = userId

\* mutant: any user passes once the team exists
IsMember_TeamExists(teamId, userId) == teamId \in DOMAIN teams

IsMember(teamId, userId) == teamId \in DOMAIN teams /\ Includes(teams[teamId], userId)

Has(query, param) == param \in DOMAIN query

\* req.application = application; next(): express runs the route's handlers
\* up to their first await in the same tick
Grant(rq, application) ==
  LET granted == [rq EXCEPT !.application = application] IN
    IF rq.kind = "get" THEN Send(granted, 200, Summary(application))
    ELSE [granted EXCEPT !.pc = "indexExists"]

Deny(rq) == Send(rq, 403, "You have no access to this application")

\* application = await getById(applicationId), then the owner check
ResolveLoad(r) ==
  /\ req[r].pc = "getById"
  /\ LET rq == req[r]
         application == GetById(rq.applicationId) IN
       /\ cache' = IF application = NoApplication THEN cache ELSE cache \cup {application}
       /\ req' = [req EXCEPT ![r] =
            IF application = NoApplication THEN Send(rq, 404, "Unknown application")
            ELSE IF IsOwner(application, rq.user) THEN Grant(rq, application)
            ELSE IF application.teamId # Null
              THEN [rq EXCEPT !.pc = "teamLookup", !.loaded = application]
              ELSE Deny(rq)]
       /\ lastGrant' =
            IF application # NoApplication /\ IsOwner(application, rq.user)
              THEN <<rq.user, application.id>> ELSE lastGrant
  /\ UNCHANGED <<apps, teams, es, pager>>

\* team = await teamRepo.findOne(teamId), then the membership check
ResolveTeam(r) ==
  /\ req[r].pc = "teamLookup"
  /\ LET rq == req[r]
         ok == IsMember(rq.loaded.teamId, rq.user) IN
       /\ req' = [req EXCEPT ![r] = IF ok THEN Grant(rq, rq.loaded) ELSE Deny(rq)]
       /\ lastGrant' = IF ok THEN <<rq.user, rq.loaded.id>> ELSE lastGrant
  /\ UNCHANGED <<apps, teams, cache, es, pager>>

(***************************************************************************)
(* Elasticsearch.                                                          *)
(***************************************************************************)
Min(a, b) == IF a < b THEN a ELSE b

Max(a, b) == IF a > b THEN a ELSE b

MinimumShouldMatch == 80

\* match query with minimum_should_match: the share of the query's terms
\* (rounded down, at least one) that the message has to contain; content
\* and message are the sets of terms of the analysed strings (decodeURI of
\* /logs/search leaves a string without escapes as it is)
Matches(content, message) ==
  Cardinality(content \cap message) >=
    Max(1, (Cardinality(content) * MinimumShouldMatch) \div 100)

\* mutant: lte in place of lt
RangeLt_Inclusive(id, before) == id <= before

RangeLt(id, before) == id < before

\* sort: 'time:desc' with size: the possible pages of hits; documents of
\* equal time are in no defined order, so any of them may fill the page
TopByTime(docs, size) ==
  {hits \in SUBSET docs :
     /\ Cardinality(hits) = Min(size, Cardinality(docs))
     /\ \A h \in hits, d \in docs \ hits : h._source.time >= d._source.time}

SearchQuery(docs, content) == {d \in docs : Matches(content, d._source.message)}

\* mutant: with content given, bool.must is set in place of bool.filter
HistoryQuery_MustOnly(docs, query) ==
  {d \in docs :
     IF Has(query, "content") THEN Matches(query.content, d._source.message)
     ELSE d._source.id < query.before}

HistoryQuery(docs, query) ==
  {d \in docs :
     /\ RangeLt(d._source.id, query.before)
     /\ Has(query, "content") => Matches(query.content, d._source.message)}

\* message = result._source; message._id = result._id
Reshape(hit) ==
  [_id |-> hit._id, id |-> hit._source.id, time |-> hit._source.time,
   message |-> hit._source.message]

Docs == UNION {es[x] : x \in DOMAIN es}

\* The ingestion path writes a document into a tenant's index.
Ingest(index, source) ==
  /\ index \in DOMAIN es
  /\ Cardinality(Docs) < MaxDocs
  /\ es' = [es EXCEPT ![index] = @ \cup {[_id |-> Cardinality(Docs) + 1, _source |-> source]}]
  /\ pager' = IF pager.pc = "off" THEN pager ELSE [pager EXCEPT !.fixed = FALSE]
  /\ UNCHANGED <<apps, teams, cache, req, lastGrant>>

(***************************************************************************)
(* GET /:applicationId/logs/*                                              *)
(***************************************************************************)
\* the handler of the route, run by next() up to its first await
RouteStart(rq) ==
  IF rq.kind = "search" /\ ~Has(rq.query, "content")
    THEN Send(rq, 400, "Missing \"content\" parameter")
  ELSE IF rq.kind = "history" /\ ~Has(rq.query, "before")
    THEN Send(rq, 400, "Missing \"before\" parameter")
  ELSE [rq EXCEPT !.pc = "esSearch"]

\* mutant: the index is taken to exist
IndexExists_Assumed(index) == TRUE

IndexExists(index) == index \in DOMAIN es

\* {body: exists} = await esClient.indices.exists(...)
LogsExists(r) ==
  /\ req[r].pc = "indexExists"
  /\ req' = [req EXCEPT ![r] =
       IF ~IndexExists(IndexName(req[r].application.id)) THEN Send(@, 200, {})
       ELSE RouteStart(@)]
  /\ UNCHANGED <<apps, teams, cache, es, lastGrant, pager>>

\* esResult = await esClient.search(...); res.send(hits.hits.map(...)).
\* hits is the set of pages the backend may answer with, empty when the
\* index is missing and the search rejects. A page is kept as the set of
\* its records; their order in the array (time descending) is left out.
EsResult(rq, hits) ==
  IF hits = {} THEN {Reject(rq)}
  ELSE {Send(rq, 200, {Reshape(h) : h \in page}) : page \in hits}

IndexDocs(index) == IF index \in DOMAIN es THEN es[index] ELSE {}

Pages(index, docs, size) ==
  IF index \in DOMAIN es THEN TopByTime(docs, size) ELSE {}

LogsSearch(r) ==
  /\ req[r].pc = "esSearch" /\ req[r].kind = "search"
  /\ LET index == IndexName(req[r].application.id) IN
       \E rq \in EsResult(req[r],
            Pages(index, SearchQuery(IndexDocs(index), req[r].query.content), PageSize)) :
         req' = [req EXCEPT ![r] = rq]
  /\ UNCHANGED <<apps, teams, cache, es, lastGrant, pager>>

LogsRecent(r) ==
  /\ req[r].pc = "esSearch" /\ req[r].kind = "recent"
  /\ LET index == IndexName(req[r].application.id) IN
       \E rq \in EsResult(req[r], Pages(index, IndexDocs(index), RecentSize)) :
         req' = [req EXCEPT ![r] = rq]
  /\ UNCHANGED <<apps, teams, cache, es, lastGrant, pager>>

LogsHistory(r) ==
  /\ req[r].pc = "esSearch" /\ req[r].kind = "history"
  /\ LET index == IndexName(req[r].application.id) IN
       \E rq \in EsResult(req[r],
            Pages(index, HistoryQuery(IndexDocs(index), req[r].query), PageSize)) :
         req' = [req EXCEPT ![r] = rq]
  /\ UNCHANGED <<apps, teams, cache, es, lastGrant, pager>>

(***************************************************************************)
(* A caller of /logs/history that follows the pagination contract: it      *)
(* starts from a cursor, asks again with before set to the smallest id of  *)
(* the page it got, and stops at the first page that is not full.          *)
(***************************************************************************)
PagerUser == "u1"
PagerReq  == "r1"

MinId(page) == CHOOSE i \in {x.id : x \in page} : \A x \in page : i <= x.id

PagerQuery(p) ==
  IF p.content = {} THEN [before |-> p.before]
  ELSE [before |-> p.before, content |-> p.content]

PagerBegin(cursor, content) ==
  /\ pager.pc = "off"
  /\ pager' = [pager EXCEPT !.pc = "call", !.cursor = cursor, !.content = content,
                            !.before = cursor]
  /\ UNCHANGED <<apps, teams, cache, es, req, lastGrant>>

PagerCall ==
  /\ pager.pc = "call"
  /\ Free(PagerReq)
  /\ req' = [req EXCEPT ![PagerReq] =
       TenantRequest(PagerUser, "history", 1, PagerQuery(pager))]
  /\ pager' = [pager EXCEPT !.pc = "wait"]
  /\ UNCHANGED <<apps, teams, cache, es, lastGrant>>

PagerReceive ==
  /\ pager.pc = "wait"
  /\ req[PagerReq].pc = "done"
  /\ LET page == req[PagerReq].res.body IN
       pager' =
         IF Cardinality(page) < PageSize
           THEN [pager EXCEPT !.pc = "end", !.pages = Append(@, page)]
           ELSE [pager EXCEPT !.pc = "call", !.pages = Append(@, page),
                              !.before = MinId(page)]
  /\ UNCHANGED <<apps, teams, cache, es, req, lastGrant>>

(***************************************************************************)
(* Specifications.                                                         *)
(***************************************************************************)
NoTeams == [t \in {} |-> {}]

NoIndices == [x \in {} |-> {}]

PagerOff ==
  [pc |-> "off", cursor |-> 0, content |-> {}, before |-> 0, pages |-> <<>>,
   fixed |-> TRUE]

Owned(id, userId) ==
  [id |-> id, name |-> "app", key |-> "key", ownerId |-> userId, teamId |-> Null]

\* Spec: the registry (GET /list, POST /create) beside team administration.
Bodies ==
  [name : {"", "app"}] \cup [name : {"app"}, teamId : TeamIds]

Init ==
  /\ apps = <<>>
  /\ teams = NoTeams
  /\ cache = {}
  /\ es = NoIndices
  /\ req = [r \in Reqs |-> Idle]
  /\ lastGrant = <<Null, 0>>
  /\ pager = PagerOff

Next ==
  \/ \E t \in TeamIds, m \in SUBSET Users : TeamSave(t, m)
  \/ \E t \in TeamIds : TeamRemove(t)
  \/ \E r \in {"r1"} :
       \/ \E u \in Users : ListStart(r, u)
       \/ ListOwned(r)
       \/ ListTeams(r)
       \/ \E t \in TeamIds : ListTeamApps(r, t)
       \/ \E u \in Users, b \in Bodies : CreateStart(r, u, b)
       \/ CreateFindTeam(r)
       \/ CreateSave(r)
       \/ \E ok \in BOOLEAN : CreateIndex(r, ok)

Spec == Init /\ [][Next]_vars

\* SpecAccess: tenant-scoped requests beside POST /create and the
\* administration of one team.
AccessBodies == {[name |-> "app"], [name |-> "app", teamId |-> "t1"]}

SearchQueries == {NoQuery, [content |-> {"disk"}]}

HistoryQueries == {NoQuery, [before |-> 2]}

NextAccess ==
  \/ \E m \in SUBSET Users : TeamSave("t1", m)
  \/ TeamRemove("t1")
  \/ \E r \in {"r1"} :
       \/ \E u \in Users, b \in AccessBodies : CreateStart(r, u, b)
       \/ CreateFindTeam(r)
       \/ CreateSave(r)
       \/ \E ok \in BOOLEAN : CreateIndex(r, ok)
       \/ \E u \in Users, id \in 1..MaxApps : TenantStart(r, u, "get", id, NoQuery)
       \/ \E u \in Users, id \in 1..MaxApps, q \in SearchQueries :
            TenantStart(r, u, "search", id, q)
       \/ \E u \in Users, id \in 1..MaxApps, q \in HistoryQueries :
            TenantStart(r, u, "history", id, q)
       \/ ResolveLoad(r)
       \/ ResolveTeam(r)
       \/ LogsExists(r)
       \/ LogsSearch(r)
       \/ LogsHistory(r)

SpecAccess == Init /\ [][NextAccess]_vars

\* SpecQuery: two tenants, each with its index, written to by the ingestion
\* path while each owner's connection queries the logs of either tenant.
UserOf(r) == IF r = "r1" THEN "u1" ELSE "u2"

QuerySources == [id : {1}, time : {1}, message : Messages]

InitQuery ==
  /\ apps = <<Owned(1, "u1"), Owned(2, "u2")>>
  /\ teams = NoTeams
  /\ cache = {}
  /\ es = [x \in {IndexName(1), IndexName(2)} |-> {}]
  /\ req = [r \in Reqs |-> Idle]
  /\ lastGrant = <<Null, 0>>
  /\ pager = PagerOff

NextQuery ==
  \/ \E id \in 1..2, s \in QuerySources : Ingest(IndexName(id), s)
  \/ \E r \in Reqs :
       \/ \E id \in 1..2, content \in Contents :
            TenantStart(r, UserOf(r), "search", id, [content |-> content])
       \/ \E id \in 1..2 : TenantStart(r, UserOf(r), "recent", id, NoQuery)
       \/ \E id \in 1..2 : TenantStart(r, UserOf(r), "history", id, [before |-> 2])
       \/ ResolveLoad(r)
       \/ LogsExists(r)
       \/ LogsSearch(r)
       \/ LogsRecent(r)
       \/ LogsHistory(r)

SpecQuery == InitQuery /\ [][NextQuery]_vars

\* SpecPage: one tenant whose owner pages through the history while the
\* ingestion path keeps writing.
PageSources == [id : Ids, time : Times, message : {{"disk"}}]

PageContents == {{}, {"disk"}, {"full"}}

InitPage ==
  /\ apps = <<Owned(1, PagerUser)>>
  /\ teams = NoTeams
  /\ cache = {}
  /\ es = [x \in {IndexName(1)} |-> {}]
  /\ req = [r \in Reqs |-> Idle]
  /\ lastGrant = <<Null, 0>>
  /\ pager = PagerOff

NextPage ==
  \/ \E s \in PageSources : Ingest(IndexName(1), s)
  \/ \E cursor \in Ids \cup {4}, content \in PageContents : PagerBegin(cursor, content)
  \/ PagerCall
  \/ ResolveLoad(PagerReq)
  \/ LogsExists(PagerReq)
  \/ LogsHistory(PagerReq)
  \/ PagerReceive

SpecPage == InitPage /\ [][NextPage]_vars

(***************************************************************************)
(* Properties.                                                             *)
(***************************************************************************)
TenantKinds == {"get", "search", "recent", "history"}

LogKinds == {"search", "recent", "history"}

Attached(rq) == rq.application # NoApplication

\* what the tables say, read directly
Entitled(userId, id) ==
  /\ id \in 1..Len(apps)
  /\ \/ apps[id].ownerId = userId
     \/ /\ apps[id].teamId \in DOMAIN teams
        /\ userId \in teams[apps[id].teamId]

Decides(r) ==
  /\ req[r].pc \in {"getById", "teamLookup"}
  /\ req'[r].pc \notin {"getById", "teamLookup"}
  /\ req[r].applicationId \in 1..Len(apps)

\* C1: whenever the resolver decides a request for an existing application,
\* it attaches the application and goes on exactly when the user is the
\* owner or is, in the team table as it is at that moment, a member of the
\* application's team; otherwise it answers 403 and attaches nothing.
C1_ResolverGrantsExactlyEntitled ==
  [][\A r \in Reqs :
       Decides(r) =>
         IF Entitled(req[r].user, req[r].applicationId)
           THEN /\ req'[r].application = apps[req[r].applicationId]
                /\ req'[r].res.status \in {0, 200, 400}
           ELSE /\ ~Attached(req'[r])
                /\ req'[r].pc = "done"
                /\ req'[r].res.status = 403]_vars

\* a user whose latest granted request was for this application is denied,
\* the record coming from the cache and the team no longer listing the user
C1_Witness ==
  \E r \in Reqs :
    /\ req[r].kind \in TenantKinds /\ req[r].pc = "done" /\ req[r].res.status = 403
    /\ lastGrant = <<req[r].user, req[r].applicationId>>
    /\ req[r].loaded \in cache
    /\ req[r].loaded.teamId \in DOMAIN teams
    /\ req[r].user \notin teams[req[r].loaded.teamId]

Starts(r, kind) == Free(r) /\ req'[r] # req[r] /\ req'[r].kind = kind

Persisted(rq, id) ==
  [id |-> id, name |-> rq.body.name, key |-> "key",
   ownerId |-> IF Has(rq.body, "teamId") THEN Null ELSE rq.user,
   teamId  |-> IF Has(rq.body, "teamId") THEN rq.body.teamId ELSE Null]

\* C2: a create with a valid name and no teamId goes on to save a row owned
\* by its user; with the teamId of an existing team it is answered 403 with
\* the table unchanged when the user is not a member, and goes on to save
\* when the user is one; the row saved carries the teamId and a null ownerId
\* in the team case and ownerId = user, teamId null otherwise.
C2_CreateOwnership ==
  [][\A r \in Reqs :
       /\ (Starts(r, "create") /\ req'[r].body.name # "" /\ ~Has(req'[r].body, "teamId"))
            => req'[r].pc = "save" /\ apps' = apps
       /\ (req[r].kind = "create" /\ req[r].pc = "findTeam" /\ req'[r] # req[r]
             /\ req[r].body.teamId \in DOMAIN teams)
            => /\ apps' = apps
               /\ IF req[r].user \in teams[req[r].body.teamId]
                    THEN req'[r].pc = "save"
                    ELSE req'[r].pc = "done" /\ req'[r].res.status = 403
       /\ (req[r].kind = "create" /\ req[r].pc = "save" /\ req'[r] # req[r])
            => apps' = Append(apps, Persisted(req[r], Len(apps) + 1))
       /\ (req[r].kind = "create" /\ req[r].pc = "done" /\ req[r].res.status = 403
             /\ req'[r] = req[r])
            => apps' = apps]_vars

\* a team-owned row saved for a member, and a later create refused with 403
C2_Witness ==
  \E r \in Reqs, i \in 1..Len(apps) :
    /\ apps[i].teamId # Null /\ apps[i].ownerId = Null
    /\ req[r].kind = "create" /\ req[r].pc = "done" /\ req[r].res.status = 403

\* C3: every row of the application table has exactly one of ownerId and
\* teamId set.
C3_ExactlyOneOwner ==
  \A i \in 1..Len(apps) : (apps[i].ownerId # Null) # (apps[i].teamId # Null)

\* a personal and a team application side by side
C3_Witness ==
  /\ \E i \in 1..Len(apps) : apps[i].ownerId # Null /\ apps[i].teamId = Null
  /\ \E i \in 1..Len(apps) : apps[i].teamId # Null /\ apps[i].ownerId = Null

MissingParam(rq) ==
  \/ rq.kind = "search"  /\ ~Has(rq.query, "content")
  \/ rq.kind = "history" /\ ~Has(rq.query, "before")

\* C4: every granted search without content is answered 400 naming
\* "content", and every granted history without before is answered 400
\* naming "before", whether or not the tenant's index exists.
C4_MissingParameterIs400 ==
  \A r \in Reqs :
    (req[r].pc = "done" /\ Attached(req[r]) /\ MissingParam(req[r])) =>
      /\ req[r].res.status = 400
      /\ req[r].res.body =
           IF req[r].kind = "search" THEN "Missing \"content\" parameter"
           ELSE "Missing \"before\" parameter"

\* C5: a granted search or history with its required parameter, on an
\* application whose index does not exist, is answered 200 with the empty
\* array, and getById still yields the application's row.
C5_MissingIndexIsEmpty ==
  \A r \in Reqs :
    (/\ req[r].pc = "done" /\ Attached(req[r])
     /\ req[r].kind \in {"search", "history"} /\ ~MissingParam(req[r])
     /\ <<"syslog", req[r].application.id>> \notin DOMAIN es) =>
      /\ req[r].res.status = 200
      /\ req[r].res.body = {}
      /\ GetById(req[r].application.id) = apps[req[r].application.id]

\* the create request's provisioning failed (its row is the last one saved),
\* and a query with its parameter was then answered on that application
C5_Witness ==
  \E r \in Reqs :
    /\ req[r].pc = "done" /\ Attached(req[r])
    /\ req[r].kind \in {"search", "history"} /\ ~MissingParam(req[r])
    /\ req[r].application.id \in 1..Len(apps)
    /\ <<"syslog", req[r].application.id>> \notin DOMAIN es
    /\ req[r].res.status = 200

\* C6: a history response holds only records whose id is below the before
\* it was asked with.
C6_HistoryBelowCursor ==
  \A r \in Reqs :
    (req[r].pc = "done" /\ req[r].kind = "history" /\ req[r].res.status = 200) =>
      \A x \in req[r].res.body : x.id < req[r].query.before

\* a filtered history page that left out a matching, newer document at or
\* above the cursor
C6_Witness ==
  \E r \in Reqs :
    /\ req[r].pc = "done" /\ req[r].kind = "history" /\ req[r].res.status = 200
    /\ Has(req[r].query, "content")
    /\ req[r].res.body # {}
    /\ \E d \in es[<<"syslog", 1>>] :
         /\ d._source.id >= req[r].query.before
         /\ Matches(req[r].query.content, d._source.message)
         /\ \A x \in req[r].res.body : d._source.time > x.time

\* C7: a history page and the next one, asked with before set to the
\* smallest id of the first, have no record in common.
C7_SuccessivePagesDisjoint ==
  \A i \in 1..(Len(pager.pages) - 1) : pager.pages[i] \cap pager.pages[i + 1] = {}

\* two non-empty pages, the second with a record newer than one of the
\* first: its time order is the reverse of its id order, and it was ingested
\* after the first page was cut, which would have held it otherwise
C7_Witness ==
  /\ Len(pager.pages) >= 2
  /\ ~pager.fixed
  /\ pager.content = {}
  /\ \E x \in pager.pages[1], y \in pager.pages[2] : y.time > x.time

TenantDocs(id) ==
  IF <<"syslog", id>> \in DOMAIN es THEN {Reshape(d) : d \in es[<<"syslog", id>>]} ELSE {}

\* C8: every search, recent and history response holds only records of the
\* index of the application attached to that request, whose owner asked, and
\* no record of another tenant's index.
C8_TenantIsolation ==
  \A r \in Reqs :
    (req[r].pc = "done" /\ req[r].kind \in LogKinds /\ req[r].res.status = 200) =>
      /\ Attached(req[r])
      /\ req[r].application.ownerId = req[r].user
      /\ req[r].res.body \subseteq TenantDocs(req[r].application.id)
      /\ \A id \in 1..Len(apps) :
           id # req[r].application.id => req[r].res.body \cap TenantDocs(id) = {}

\* both connections hold a non-empty answer, each from its own tenant
C8_Witness ==
  /\ \A r \in Reqs :
       /\ req[r].pc = "done" /\ req[r].kind \in LogKinds /\ req[r].res.status = 200
       /\ req[r].res.body # {}
  /\ req["r1"].application.id # req["r2"].application.id
  /\ req["r1"].kind # req["r2"].kind

Visible(userId) ==
  {Summary(apps[i]) : i \in {j \in 1..Len(apps) :
     \/ apps[j].ownerId = userId
     \/ apps[j].teamId \in DOMAIN teams /\ userId \in teams[apps[j].teamId]}}

\* C9: a list answered with no write to the tables since the request came
\* in holds the summaries of the user's own applications and of those of
\* the teams the user is in, each exactly once.
C9_ListExactlyVisible ==
  \A r \in Reqs :
    (req[r].pc = "done" /\ req[r].kind = "list" /\ ~req[r].dirty) =>
      LET listed == req[r].res.body IN
        /\ req[r].res.status = 200
        /\ {listed[i] : i \in 1..Len(listed)} = Visible(req[r].user)
        /\ \A i, j \in 1..Len(listed) : listed[i] = listed[j] => i = j

\* the user's two teams each own an application, and the lookup of the
\* second team completed first
C9_Witness ==
  \E r \in Reqs :
    /\ req[r].pc = "done" /\ req[r].kind = "list" /\ ~req[r].dirty
    /\ Len(apps) = 2
    /\ req[r].res.body = <<Summary(apps[2]), Summary(apps[1])>>

Distinct(docs) ==
  \A d, e \in docs :
    (d._source.id = e._source.id \/ d._source.time = e._source.time) => d = e

\* C10: when the caller stops, over an index that did not change since it
\* began (and whose records have pairwise different ids and pairwise
\* different times), every record with id below the initial cursor is in
\* exactly one of the pages it received.
C10_PaginationDeliversAll ==
  (/\ pager.pc = "end" /\ pager.fixed /\ pager.content = {}
   /\ Distinct(es[<<"syslog", 1>>])) =>
    \A d \in es[<<"syslog", 1>>] :
      d._source.id < pager.cursor =>
        Cardinality({i \in 1..Len(pager.pages) : Reshape(d) \in pager.pages[i]}) = 1

====
